---- MODULE Spec2Model ----
(***************************************************************************)
(* A model of the USB volume manager: the device manager                   *)
(* (src/utils/usb_manager.py, class USBManager), the file service          *)
(* (src/utils/file_operations.py, class FileOperations) and the way        *)
(* src/app.py wires the two together.                                      *)
(*                                                                         *)
(* Strings the code takes apart (file names) are sequences of tokens; a    *)
(* path is a sequence of names.  None is the empty path for a path-valued  *)
(* attribute and the string "None" for a device-valued one.                *)
(***************************************************************************)
EXTENDS Integers, Sequences, FiniteSets, TLC

\* ---------------------------------------------------------------- bounds
\* The deepest stack of mounts the kernel is let to hold on the mount directory.
MaxStack == 2
\* The most file operations that change a filesystem in one run.
MaxWrites == 2
\* The entries of one listing whose stat may fail
MaxUnreadable == 1

\* --------------------------------------------------------------- universe
\* The device nodes that exist (os.path.exists(device_name)), and the names a
\* mount request may give.
Devices == {"sda1", "sdb1"}
DeviceArgs == Devices \cup {"sdz9"}
\* The USBManager instances of the process: the module-level one of app.py and
\* the one FileOperations creates for itself when it is given none.
Managers == {"app", "own"}
Threads == {"t1", "t2"}
\* The thread of a server that takes one request at a time
Serial == {"t1"}

NoPath == <<>>
NoDevice == "None"

\* A name is the sequence of its characters.  self.mount_base is /media/usb, and
\* mount_device derives usb_<pid> from it; the process id is 7 here.
mount_base == << <<"m", "e", "d", "i", "a">>, <<"u", "s", "b">> >>
MountDir == Append(mount_base, <<"u", "s", "b", "_", "7">>)
DotDot == <<".", ".">>

\* The filesystems: the host's and one volume per device.
FsIds == Devices \cup {"host"}

VARIABLES
    mount_point,     \* [Managers -> path]: self.mount_point of each manager
    mounted_device,  \* [Managers -> device]: self.mounted_device
    fo_usb_manager,  \* file_ops.usb_manager: "None" or a manager
    osMounts,        \* the kernel's stack of mounts on MountDir, top last
    fsys,            \* [FsIds -> tree]: a tree maps a path below the root of
                     \* its filesystem to [dir, data]
    writes,          \* how many file operations have changed a filesystem
    pc,              \* [Threads -> position of the request the thread serves]
    arg,             \* [Threads -> device_name of the mount request]
    caller,          \* [Threads -> who called unmount_device in this request:
                     \* "none" | "route" | "mount"]
    ret              \* [Threads -> what the last finished request returned]

vars == <<mount_point, mounted_device, fo_usb_manager, osMounts,
          fsys, writes, pc, arg, caller, ret>>

\* What a request returned.  val is the returned value and paths the absolute
\* paths the request resolved and accessed; req is the request's input and saw
\* what held when the request was made: the session of the application's manager
\* (its mount point and its device) and whether the mount directory was a mount
\* point.
NoSaw == [stored |-> NoPath, live |-> FALSE, device |-> NoDevice]
NoRet == [op |-> "none", ok |-> TRUE, err |-> "", val |-> NoPath, paths |-> {},
          req |-> NoPath, saw |-> NoSaw]
Ok(r, op, v) == [r EXCEPT !.op = op, !.ok = TRUE, !.err = "", !.val = v]
Raise(r, op, e) == [r EXCEPT !.op = op, !.ok = FALSE, !.err = e, !.val = NoPath]

Top(s) == s[Len(s)]
Pop(s) == SubSeq(s, 1, Len(s) - 1)
IsPrefix(p, q) == Len(p) <= Len(q) /\ SubSeq(q, 1, Len(p)) = p
Drop(q, n) == SubSeq(q, n + 1, Len(q))
Parent(p) == IF p = <<>> THEN <<>> ELSE SubSeq(p, 1, Len(p) - 1)

DirEntry == [dir |-> TRUE, data |-> 0, size |-> 0]
FileEntry(x, n) == [dir |-> FALSE, data |-> x, size |-> n]

\* Whether MountDir exists as a directory of the host.
dirExists == MountDir \in DOMAIN fsys["host"] /\ fsys["host"][MountDir].dir

\* os.path.ismount(path) for the one directory the managers mount on.
IsMount(p) == p = MountDir /\ dirExists /\ osMounts # <<>>

\* The record of a request that starts now with input r.
Enter(r) == [NoRet EXCEPT !.req = r,
                          !.saw = [stored |-> mount_point["app"],
                                   live |-> IsMount(MountDir),
                                   device |-> mounted_device["app"]]]

\* USBManager.__init__ has made self.mount_base; the host holds one file beside
\* the mount directory, and the volumes hold what their users left on them.
InitFs ==
    [f \in FsIds |->
        CASE f = "host" ->
                (<< <<"m", "e", "d", "i", "a">> >> :> DirEntry)
                @@ (mount_base :> DirEntry)
                @@ (Append(mount_base, <<"x">>) :> FileEntry(9, 1))
          [] f = "sda1" -> (<< <<"a", ".", "t">> >> :> FileEntry(1, 1))
          [] OTHER -> (<< <<"B">> >> :> FileEntry(2, 1))]

\* The state after construction. FileOperations.__init__(usb_manager=None) has
\* two constructions: the application passes no manager (app.py line 39), and
\* a file service built over the application's manager is the other one.
Init ==
    /\ mount_point = [m \in Managers |-> NoPath]
    /\ mounted_device = [m \in Managers |-> NoDevice]
    /\ fo_usb_manager \in {"None", "app"}
    /\ osMounts = <<>>
    /\ fsys = InitFs
    /\ writes = 0
    /\ pc = [t \in Threads |-> "idle"]
    /\ arg = [t \in Threads |-> NoDevice]
    /\ caller = [t \in Threads |-> "none"]
    /\ ret = [t \in Threads |-> NoRet]

\* The tree with directory p and its missing ancestors made (os.makedirs).
MakeDirs(tree, p) ==
    LET new == {SubSeq(p, 1, i) : i \in 1..Len(p)} \ DOMAIN tree
    IN  [q \in DOMAIN tree \cup new |-> IF q \in new THEN DirEntry ELSE tree[q]]

\* ------------------------------------------------------------ mount_device
\* mount_device without the teardown of the previous session.
MountDevice_NoTeardown(t, m, d) ==
    /\ pc[t] = "idle"
    /\ arg' = [arg EXCEPT ![t] = d]
    /\ caller' = [caller EXCEPT ![t] = "none"]
    /\ IF d \notin Devices
         THEN /\ ret' = [ret EXCEPT ![t] = Raise(Enter(<<d>>), "mount", "no_device")]
              /\ pc' = [pc EXCEPT ![t] = "done"]
         ELSE /\ ret' = [ret EXCEPT ![t] = Enter(<<d>>)]
              /\ pc' = [pc EXCEPT ![t] = "m_mkdir"]
    /\ UNCHANGED <<writes, mount_point, mounted_device, fo_usb_manager,
                   osMounts, fsys>>

\* The entry of mount_device: the existence check and the decision to unmount
\* the previous session first.
MountDevice(t, m, d) ==
    /\ pc[t] = "idle"
    /\ arg' = [arg EXCEPT ![t] = d]
    /\ IF d \notin Devices
         THEN /\ ret' = [ret EXCEPT ![t] = Raise(Enter(<<d>>), "mount", "no_device")]
              /\ caller' = [caller EXCEPT ![t] = "none"]
              /\ pc' = [pc EXCEPT ![t] = "done"]
         ELSE /\ ret' = [ret EXCEPT ![t] = Enter(<<d>>)]
              /\ IF mount_point[m] # NoPath
                   THEN /\ pc' = [pc EXCEPT ![t] = "u_tool"]
                        /\ caller' = [caller EXCEPT ![t] = "mount"]
                   ELSE /\ pc' = [pc EXCEPT ![t] = "m_mkdir"]
                        /\ caller' = [caller EXCEPT ![t] = "none"]
    /\ UNCHANGED <<writes, mount_point, mounted_device, fo_usb_manager,
                   osMounts, fsys>>

\* os.makedirs(mount_point, exist_ok=True)
MountMkdir(t) ==
    /\ pc[t] = "m_mkdir"
    /\ fsys' = [fsys EXCEPT !["host"] =
                    MakeDirs(@, MountDir)]
    /\ pc' = [pc EXCEPT ![t] = "m_mount1"]
    /\ UNCHANGED <<writes, mount_point, mounted_device, fo_usb_manager,
                   osMounts, arg, caller, ret>>

\* What the kernel lets the mount tool do: the node and the directory exist, and
\* the same filesystem is not already the top mount of the directory.
CanMount(d) ==
    /\ d \in Devices
    /\ dirExists
    /\ Len(osMounts) < MaxStack
    /\ (IF osMounts = <<>> THEN TRUE ELSE Top(osMounts) # d)

\* One run of the mount tool (subprocess.run with timeout=30): exit 0 with the
\* device mounted, a non-zero exit, or a timeout, after which the device may or
\* may not be mounted.
MountTool(t, next) ==
    \/ /\ CanMount(arg[t])
       /\ osMounts' = Append(osMounts, arg[t])
       /\ pc' = [pc EXCEPT ![t] = "m_verify"]
       /\ UNCHANGED ret
    \/ /\ UNCHANGED osMounts
       /\ IF next = "raise"
            THEN /\ pc' = [pc EXCEPT ![t] = "done"]
                 /\ ret' = [ret EXCEPT ![t] = Raise(@, "mount", "mount_failed")]
            ELSE /\ pc' = [pc EXCEPT ![t] = next]
                 /\ UNCHANGED ret
    \/ /\ \/ UNCHANGED osMounts
          \/ /\ CanMount(arg[t])
             /\ osMounts' = Append(osMounts, arg[t])
       /\ pc' = [pc EXCEPT ![t] = "done"]
       /\ ret' = [ret EXCEPT ![t] = Raise(@, "mount", "timeout")]

\* sudo mount device mount_point
MountTry1(t) ==
    /\ pc[t] = "m_mount1"
    /\ MountTool(t, "m_mount2")
    /\ UNCHANGED <<writes, mount_point, mounted_device, fo_usb_manager,
                   fsys, arg, caller>>

\* sudo mount -t auto device mount_point
MountTry2(t) ==
    /\ pc[t] = "m_mount2"
    /\ MountTool(t, "raise")
    /\ UNCHANGED <<writes, mount_point, mounted_device, fo_usb_manager,
                   fsys, arg, caller>>

\* mount_device trusting the exit status of the mount tool.
MountVerify_Unverified(t, m) ==
    /\ pc[t] = "m_verify"
    /\ pc' = [pc EXCEPT ![t] = "done"]
    /\ mount_point' = [mount_point EXCEPT ![m] = MountDir]
    /\ mounted_device' = [mounted_device EXCEPT ![m] = arg[t]]
    /\ ret' = [ret EXCEPT ![t] = Ok(@, "mount", MountDir)]
    /\ UNCHANGED <<writes, fo_usb_manager, osMounts, fsys, arg, caller>>

\* The verification os.path.ismount(mount_point) and the installation of the
\* session.
MountVerify(t, m) ==
    /\ pc[t] = "m_verify"
    /\ pc' = [pc EXCEPT ![t] = "done"]
    /\ IF IsMount(MountDir)
         THEN /\ mount_point' = [mount_point EXCEPT ![m] = MountDir]
              /\ mounted_device' = [mounted_device EXCEPT ![m] = arg[t]]
              /\ ret' = [ret EXCEPT ![t] = Ok(@, "mount", MountDir)]
         ELSE /\ ret' = [ret EXCEPT ![t] = Raise(@, "mount", "verify_failed")]
              /\ UNCHANGED <<mount_point, mounted_device>>
    /\ UNCHANGED <<writes, fo_usb_manager, osMounts, fsys, arg, caller>>

\* ---------------------------------------------------------- unmount_device
\* unmount_device that runs the tool whether or not a session is stored.
UnmountDevice_AlwaysTool(t, m) ==
    /\ pc[t] = "idle"
    /\ ret' = [ret EXCEPT ![t] = Enter(NoPath)]
    /\ pc' = [pc EXCEPT ![t] = "u_tool"]
    /\ caller' = [caller EXCEPT ![t] = "route"]
    /\ UNCHANGED <<writes, mount_point, mounted_device, fo_usb_manager,
                   osMounts, fsys, arg>>

\* The entry of unmount_device called by the unmount route.
UnmountDevice(t, m) ==
    /\ pc[t] = "idle"
    /\ IF mount_point[m] = NoPath
         THEN /\ ret' = [ret EXCEPT ![t] = Ok(Enter(NoPath), "unmount", NoPath)]
              /\ caller' = [caller EXCEPT ![t] = "none"]
              /\ pc' = [pc EXCEPT ![t] = "done"]
         ELSE /\ ret' = [ret EXCEPT ![t] = Enter(NoPath)]
              /\ pc' = [pc EXCEPT ![t] = "u_tool"]
              /\ caller' = [caller EXCEPT ![t] = "route"]
    /\ UNCHANGED <<writes, mount_point, mounted_device, fo_usb_manager,
                   osMounts, fsys, arg>>

\* sudo umount self.mount_point: exit 0 with the top mount gone, a non-zero exit
\* (logged as a warning), or a timeout, which raises out of unmount_device (and
\* out of a mount_device that called it).
UmountTool(t) ==
    /\ pc[t] = "u_tool"
    /\ \/ /\ osMounts # <<>>
          /\ osMounts' = Pop(osMounts)
          /\ pc' = [pc EXCEPT ![t] = "u_rmdir"]
          /\ UNCHANGED ret
       \/ /\ UNCHANGED osMounts
          /\ pc' = [pc EXCEPT ![t] = "u_rmdir"]
          /\ UNCHANGED ret
       \/ /\ \/ UNCHANGED osMounts
             \/ /\ osMounts # <<>>
                /\ osMounts' = Pop(osMounts)
          /\ pc' = [pc EXCEPT ![t] = "done"]
          /\ ret' = [ret EXCEPT ![t] =
                Raise(@, IF caller[t] = "mount" THEN "mount" ELSE "unmount",
                         "umount_timeout")]
    /\ UNCHANGED <<writes, mount_point, mounted_device, fo_usb_manager,
                   fsys, arg, caller>>

\* os.rmdir(self.mount_point), its OSError swallowed, and the clearing of the
\* session.
UnmountCleanup(t, m) ==
    /\ pc[t] = "u_rmdir"
    /\ fsys' = [fsys EXCEPT !["host"] =
                    IF dirExists /\ osMounts = <<>>
                         /\ ~\E q \in DOMAIN @ : q # MountDir /\ IsPrefix(MountDir, q)
                      THEN [q \in DOMAIN @ \ {MountDir} |-> @[q]]
                      ELSE @]
    /\ mount_point' = [mount_point EXCEPT ![m] = NoPath]
    /\ mounted_device' = [mounted_device EXCEPT ![m] = NoDevice]
    /\ IF caller[t] = "mount"
         THEN /\ pc' = [pc EXCEPT ![t] = "m_mkdir"]
              /\ UNCHANGED ret
         ELSE /\ pc' = [pc EXCEPT ![t] = "done"]
              /\ ret' = [ret EXCEPT ![t] = Ok(@, "unmount", NoPath)]
    /\ UNCHANGED <<writes, fo_usb_manager, osMounts, arg, caller>>

\* ----------------------------------------------------------- names, paths
Letters == {"a", "b", "d", "e", "i", "m", "s", "t", "u", "x", "y", "A", "B"}
Digits == <<"0", "1", "2", "3", "4", "5", "6", "7", "8", "9">>
\* The characters secure_filename keeps: [A-Za-z0-9_.-]
SafeChars == Letters \cup {Digits[i] : i \in 1..10} \cup {"_", ".", "-"}

RECURSIVE LStrip(_, _)
LStrip(s, cs) ==
    IF s = <<>> THEN <<>>
    ELSE IF Head(s) \in cs THEN LStrip(Tail(s), cs) ELSE s

RECURSIVE RStrip(_, _)
RStrip(s, cs) ==
    IF s = <<>> THEN <<>>
    ELSE IF s[Len(s)] \in cs THEN RStrip(SubSeq(s, 1, Len(s) - 1), cs) ELSE s

\* "_".join(s.split()) for s without leading whitespace: a run of whitespace
\* before a word becomes one "_", a trailing run goes.
RECURSIVE JoinWords(_)
JoinWords(s) ==
    IF s = <<>> THEN <<>>
    ELSE IF Head(s) # " " THEN <<Head(s)>> \o JoinWords(Tail(s))
    ELSE IF Tail(s) = <<>> THEN <<>>
    ELSE IF Head(Tail(s)) = " " THEN JoinWords(Tail(s))
    ELSE <<"_">> \o JoinWords(Tail(s))

\* werkzeug.utils.secure_filename: separators become spaces, the words are joined
\* with "_", the characters outside [A-Za-z0-9_.-] go, and so do leading and
\* trailing dots and underscores.
secure_filename(s) ==
    LET spaced == [i \in 1..Len(s) |-> IF s[i] = "/" THEN " " ELSE s[i]]
        joined == JoinWords(LStrip(spaced, {" "}))
        kept == SelectSeq(joined, LAMBDA c : c \in SafeChars)
    IN  RStrip(LStrip(kept, {".", "_"}), {".", "_"})

\* os.path.splitext: the extension starts at the last dot, unless only dots
\* come before it.
LastDot(s) ==
    LET dots == {i \in 1..Len(s) : s[i] = "."}
    IN  IF dots = {} THEN 0 ELSE CHOOSE i \in dots : \A j \in dots : j <= i
splitext(s) ==
    LET i == LastDot(s)
    IN  IF i > 0 /\ \E j \in 1..(i - 1) : s[j] # "."
          THEN [name |-> SubSeq(s, 1, i - 1), ext |-> SubSeq(s, i, Len(s))]
          ELSE [name |-> s, ext |-> <<>>]

\* str(n) for n >= 0
RECURSIVE Decimal(_)
Decimal(n) ==
    IF n < 10 THEN <<Digits[n + 1]>>
    ELSE Decimal(n \div 10) \o <<Digits[(n % 10) + 1]>>

\* f"{name}_{counter}{ext}" of upload_file
Suffixed(original, counter) ==
    LET p == splitext(original)
    IN  p.name \o <<"_">> \o Decimal(counter) \o p.ext

\* A path argument: the string split at its separators; abs when it starts
\* with one.
Rel(segs) == [abs |-> FALSE, segs |-> segs]
Abs(segs) == [abs |-> TRUE, segs |-> segs]

\* os.path.join(mount_point, path)
Join(mp, r) == IF r.abs THEN r.segs ELSE mp \o r.segs

\* ------------------------------------------------------ the filesystem view
\* The filesystem an absolute path lies on, and the path within it: the top
\* mount of MountDir covers what the host has there.
Loc(p) ==
    IF osMounts # <<>> /\ dirExists /\ IsPrefix(MountDir, p)
      THEN [fs |-> Top(osMounts), rel |-> Drop(p, Len(MountDir))]
      ELSE [fs |-> "host", rel |-> p]

\* os.path.exists and os.path.isdir of a resolved path
Exists(p) ==
    LET l == Loc(p) IN IF l.rel = <<>> THEN TRUE ELSE l.rel \in DOMAIN fsys[l.fs]
IsDir(p) ==
    LET l == Loc(p)
    IN  IF l.rel = <<>> THEN TRUE
        ELSE IF l.rel \in DOMAIN fsys[l.fs] THEN fsys[l.fs][l.rel].dir ELSE FALSE

\* The kernel's resolution of the components rest from the directory cur: every
\* component but the last must lead through an existing directory, and ".."
\* leads to the parent.
RECURSIVE Walk(_, _)
Walk(cur, rest) ==
    IF rest = <<>> THEN [ok |-> TRUE, path |-> cur]
    ELSE IF ~IsDir(cur) THEN [ok |-> FALSE, path |-> cur]
    ELSE IF Head(rest) = DotDot THEN Walk(Parent(cur), Tail(rest))
    ELSE Walk(Append(cur, Head(rest)), Tail(rest))
Resolve(segs) == Walk(<<>>, segs)

\* os.path.normpath: ".." taken out as text.
RECURSIVE NormPath(_, _)
NormPath(cur, rest) ==
    IF rest = <<>> THEN cur
    ELSE IF Head(rest) = DotDot THEN NormPath(Parent(cur), Tail(rest))
    ELSE NormPath(Append(cur, Head(rest)), Tail(rest))

\* The tree with entry e at p, and the tree without p and what is below it.
Put(tree, p, e) ==
    [q \in DOMAIN tree \cup {p} |-> IF q = p THEN e ELSE tree[q]]
Without(tree, p) ==
    [q \in {x \in DOMAIN tree : ~IsPrefix(p, x)} |-> tree[q]]
\* The tree with what is at and below p moved to q.
Moved(tree, p, q) ==
    LET sub == {x \in DOMAIN tree : IsPrefix(p, x)}
        rest == DOMAIN tree \ sub
        new == {q \o Drop(x, Len(p)) : x \in sub}
    IN  [y \in rest \cup new |->
            IF y \in new THEN tree[p \o Drop(y, Len(q))] ELSE tree[y]]
Children(p) ==
    LET l == Loc(p)
    IN  {x \in DOMAIN fsys[l.fs] : Len(x) = Len(l.rel) + 1 /\ IsPrefix(l.rel, x)}

\* --------------------------------------------------------------- queries
\* is_device_mounted and get_mount_point: the cached root, if it still verifies.
is_device_mounted(m) == mount_point[m] # NoPath /\ IsMount(mount_point[m])
\* get_mount_point answering from the cache.
get_mount_point_cached(m) == mount_point[m]
get_mount_point(m) == IF is_device_mounted(m) THEN mount_point[m] ELSE NoPath

GetMountPoint(t, m) ==
    /\ pc[t] = "idle"
    /\ pc' = [pc EXCEPT ![t] = "done"]
    /\ ret' = [ret EXCEPT ![t] = Ok(Enter(NoPath), "get_mount_point", get_mount_point(m))]
    /\ UNCHANGED <<writes, mount_point, mounted_device, fo_usb_manager,
                   osMounts, fsys, arg, caller>>

\* What shutil.disk_usage may report of the volume, or its failure.
DiskUsages ==
    {[fails |-> TRUE, total |-> 0, used |-> 0, free |-> 0],
     [fails |-> FALSE, total |-> 0, used |-> 0, free |-> 0],
     [fails |-> FALSE, total |-> 8, used |-> 2, free |-> 6],
     [fails |-> FALSE, total |-> 3, used |-> 1, free |-> 2]}

AllUnmounted ==
    [mounted |-> FALSE, device |-> NoDevice, mount_point |-> NoPath,
     total_space |-> 0, used_space |-> 0, free_space |-> 0, usage_percent |-> 0]

\* round((used / total) * 100, 1), in tenths of a percent.
UsagePercent(used, total) == (2000 * used + total) \div (2 * total)

\* get_status that takes an empty filesystem for a full one.
get_status_empty_is_full(m, u) ==
    IF mount_point[m] = NoPath \/ ~IsMount(mount_point[m]) THEN AllUnmounted
    ELSE IF u.fails THEN AllUnmounted
    ELSE [mounted |-> TRUE, device |-> mounted_device[m],
          mount_point |-> mount_point[m],
          total_space |-> u.total, used_space |-> u.used, free_space |-> u.free,
          usage_percent |-> IF u.total = 0 THEN 1000
                            ELSE UsagePercent(u.used, u.total)]

\* get_status with disk usage u: the division by a zero total raises inside the
\* try block, before status.update, and is logged.
get_status(m, u) ==
    IF mount_point[m] = NoPath \/ ~IsMount(mount_point[m]) THEN AllUnmounted
    ELSE IF u.fails \/ u.total = 0 THEN AllUnmounted
    ELSE [mounted |-> TRUE, device |-> mounted_device[m],
          mount_point |-> mount_point[m],
          total_space |-> u.total, used_space |-> u.used, free_space |-> u.free,
          usage_percent |-> UsagePercent(u.used, u.total)]

GetStatus(t, m) ==
    /\ pc[t] = "idle"
    /\ pc' = [pc EXCEPT ![t] = "done"]
    /\ \E u \in DiskUsages :
          ret' = [ret EXCEPT ![t] = Ok(Enter(<<u>>), "status", get_status(m, u))]
    /\ UNCHANGED <<writes, mount_point, mounted_device, fo_usb_manager,
                   osMounts, fsys, arg, caller>>

\* ------------------------------------------------------------ file service
\* _get_usb_manager: the manager given at construction, or one FileOperations
\* makes for itself.
FoManager == IF fo_usb_manager = "None" THEN "own" ELSE fo_usb_manager

\* self.max_file_size
max_file_size == 100 * 1024 * 1024

Done(r, op, ok, err, val, paths) ==
    [r EXCEPT !.op = op, !.ok = ok, !.err = err, !.val = val, !.paths = paths]

\* get_file_path: the joined path, whatever it names.
GetFilePath(t, r) ==
    /\ pc[t] = "idle"
    /\ pc' = [pc EXCEPT ![t] = "done"]
    /\ fo_usb_manager' = FoManager
    /\ LET mp == get_mount_point(FoManager)
           e == Enter(<<r>>)
       IN  ret' = [ret EXCEPT ![t] =
              IF mp = NoPath THEN Raise(e, "get_file_path", "not_mounted")
              ELSE Done(e, "get_file_path", TRUE, "", Join(mp, r),
                        {NormPath(<<>>, Join(mp, r))})]
    /\ UNCHANGED <<writes, mount_point, mounted_device, osMounts, fsys, arg, caller>>

\* The characters of the model in the order of their codes, and str.lower.
Ascii == <<" ", "#", "-", ".", "/", "0", "1", "2", "3", "4", "5", "6", "7", "8", "9",
           "A", "B", "_", "a", "b", "d", "e", "i", "m", "s", "t", "u", "x", "y">>
Code(c) == CHOOSE i \in 1..Len(Ascii) : Ascii[i] = c
LowerChar(c) == CASE c = "A" -> "a" [] c = "B" -> "b" [] OTHER -> c
lower(s) == [i \in 1..Len(s) |-> LowerChar(s[i])]

\* a <= b for strings
RECURSIVE StrLeq(_, _)
StrLeq(a, b) ==
    IF a = <<>> THEN TRUE
    ELSE IF b = <<>> THEN FALSE
    ELSE IF Head(a) = Head(b) THEN StrLeq(Tail(a), Tail(b))
    ELSE Code(Head(a)) < Code(Head(b))

\* The order of the key (not is_directory, name), the case kept.
KeyLeq_CaseSensitive(x, y) ==
    IF x.is_directory # y.is_directory THEN x.is_directory
    ELSE StrLeq(x.name, y.name)

\* The sort key of list_files, (not is_directory, name.lower()), and its order.
KeyLeq(x, y) ==
    IF x.is_directory # y.is_directory THEN x.is_directory
    ELSE StrLeq(lower(x.name), lower(y.name))

\* What files.sort(key=...) can leave of the entries es, which os.listdir gave
\* in an order of its own: the sort is stable, so entries of equal keys stay in
\* that order.
Sorted(es) ==
    {sq \in [1..Cardinality(es) -> es] :
        /\ \A i, j \in 1..Cardinality(es) : i < j => sq[i] # sq[j] /\ KeyLeq(sq[i], sq[j])}

\* list_files(path).  bad are the children whose os.stat raises OSError (the
\* medium fails, the entry went between listdir and stat): they are logged and
\* left out.
ListFiles(t, r) ==
    /\ pc[t] = "idle"
    /\ pc' = [pc EXCEPT ![t] = "done"]
    /\ fo_usb_manager' = FoManager
    /\ LET mp == get_mount_point(FoManager)
           e == Enter(<<r>>)
           w == Resolve(Join(mp, r))
           l == Loc(w.path)
           Entries(xs) ==
               {[name |-> x[Len(x)],
                 path |-> [abs |-> r.abs, segs |-> Append(r.segs, x[Len(x)])],
                 is_directory |-> fsys[l.fs][x].dir,
                 size |-> fsys[l.fs][x].size] : x \in xs}
       IN  IF mp = NoPath
             THEN ret' = [ret EXCEPT ![t] = Raise(e, "list", "not_mounted")]
           ELSE IF ~w.ok \/ ~Exists(w.path)
             THEN ret' = [ret EXCEPT ![t] = Raise(e, "list", "not_found")]
           ELSE IF ~IsDir(w.path)
             THEN ret' = [ret EXCEPT ![t] = Done(e, "list", FALSE, "io", NoPath, {w.path})]
           ELSE \E bad \in {S \in SUBSET Children(w.path) : Cardinality(S) <= MaxUnreadable} :
                \E sq \in Sorted(Entries(Children(w.path) \ bad)) :
                  ret' = [ret EXCEPT ![t] =
                            Done(Enter(<<r, bad>>), "list", TRUE, "", sq, {w.path})]
    /\ UNCHANGED <<writes, mount_point, mounted_device, osMounts, fsys, arg, caller>>

\* upload_file writing to the name as given.
free_name_unchecked(mp, original, filename, counter) == filename

\* The loop of upload_file that looks for a free name: filename is tried first,
\* then the original with _1, _2, ... before its extension.
RECURSIVE free_name(_, _, _, _)
free_name(mp, original, filename, counter) ==
    IF ~Exists(Append(mp, filename)) THEN filename
    ELSE free_name(mp, original, Suffixed(original, counter), counter + 1)

\* upload_file checking the name before it asks for the mount point.
UploadError_NameFirst(mp, filename, size) ==
    IF filename = <<>> THEN "invalid_name"
    ELSE IF mp = NoPath THEN "not_mounted"
    ELSE IF size > max_file_size THEN "too_large"
    ELSE ""

\* The checks of upload_file in their order: the mount point, the sanitised
\* name, the size.
UploadError(mp, filename, size) ==
    IF mp = NoPath THEN "not_mounted"
    ELSE IF filename = <<>> THEN "invalid_name"
    ELSE IF size > max_file_size THEN "too_large"
    ELSE ""

\* upload_file(file)
UploadFile(t, f) ==
    /\ pc[t] = "idle"
    /\ pc' = [pc EXCEPT ![t] = "done"]
    /\ fo_usb_manager' = FoManager
    /\ LET mp == get_mount_point(FoManager)
           e == Enter(<<f>>)
           filename == secure_filename(f.filename)
           error == UploadError(mp, filename, f.size)
       IN  IF error # ""
             THEN /\ ret' = [ret EXCEPT ![t] = Raise(e, "upload", error)]
                  /\ UNCHANGED <<fsys, writes>>
           ELSE LET target == free_name(mp, filename, filename, 1)
                    l == Loc(Append(mp, target))
                IN  /\ writes < MaxWrites
                    /\ writes' = writes + 1
                    /\ fsys' = [fsys EXCEPT ![l.fs] =
                                   Put(@, l.rel, FileEntry(f.data, f.size))]
                    /\ ret' = [ret EXCEPT ![t] =
                          Done(e, "upload", TRUE, "",
                               [name |-> target, path |-> <<target>>, size |-> f.size],
                               {Append(mp, target)})]
    /\ UNCHANGED <<mount_point, mounted_device, osMounts, arg, caller>>

\* shutil.rmtree(p) / os.remove(p) on the resolved, existing path p.  A mount
\* point cannot be removed: what is mounted on it is emptied and the call fails.
Removed(p) ==
    LET l == Loc(p)
    IN  IF l.rel = <<>> THEN [fsys EXCEPT ![l.fs] = <<>>]
        ELSE [fsys EXCEPT ![l.fs] = Without(@, l.rel)]
RemoveFails(p) == Loc(p).rel = <<>>

\* delete_file taking for present whatever path can be followed.
FileNotFound_Lax(w) == ~w.ok

\* not os.path.exists(file_path) of delete_file
FileNotFound(w) == ~w.ok \/ ~Exists(w.path)

\* delete_file(filename)
DeleteFile(t, r) ==
    /\ pc[t] = "idle"
    /\ pc' = [pc EXCEPT ![t] = "done"]
    /\ fo_usb_manager' = FoManager
    /\ LET mp == get_mount_point(FoManager)
           e == Enter(<<r>>)
           w == Resolve(Join(mp, r))
       IN  IF mp = NoPath
             THEN /\ ret' = [ret EXCEPT ![t] = Raise(e, "delete", "not_mounted")]
                  /\ UNCHANGED <<fsys, writes>>
           ELSE IF FileNotFound(w)
             THEN /\ ret' = [ret EXCEPT ![t] = Raise(e, "delete", "not_found")]
                  /\ UNCHANGED <<fsys, writes>>
           ELSE \* a host directory above a mounted MountDir is not enumerated:
                \* how much of it goes depends on the order rmtree visits it in
                /\ ~(w.path # MountDir /\ IsPrefix(w.path, MountDir))
                /\ writes < MaxWrites
                /\ writes' = writes + 1
                /\ fsys' = Removed(w.path)
                /\ ret' = [ret EXCEPT ![t] =
                      Done(e, "delete", ~RemoveFails(w.path),
                           IF RemoveFails(w.path) THEN "io" ELSE "", NoPath, {w.path})]
    /\ UNCHANGED <<mount_point, mounted_device, osMounts, arg, caller>>

TargetExists_Never(w) == FALSE

\* os.path.exists(new_path) / os.path.exists(full_path): the check that guards
\* os.rename and os.makedirs.
TargetExists(w) == w.ok /\ Exists(w.path)

\* rename_file(old_name, new_name): os.rename fails across filesystems, on a
\* mount point, into a missing directory and into the renamed directory itself.
RenameFile(t, old, new) ==
    /\ pc[t] = "idle"
    /\ pc' = [pc EXCEPT ![t] = "done"]
    /\ fo_usb_manager' = FoManager
    /\ LET mp == get_mount_point(FoManager)
           e == Enter(<<old, new>>)
           wo == Resolve(Join(mp, old))
           wn == Resolve(Join(mp, new))
           lo == Loc(wo.path)
           ln == Loc(wn.path)
       IN  IF mp = NoPath
             THEN /\ ret' = [ret EXCEPT ![t] = Raise(e, "rename", "not_mounted")]
                  /\ UNCHANGED <<fsys, writes>>
           ELSE IF ~wo.ok \/ ~Exists(wo.path)
             THEN /\ ret' = [ret EXCEPT ![t] = Raise(e, "rename", "not_found")]
                  /\ UNCHANGED <<fsys, writes>>
           ELSE IF TargetExists(wn)
             THEN /\ ret' = [ret EXCEPT ![t] = Raise(e, "rename", "exists")]
                  /\ UNCHANGED <<fsys, writes>>
           ELSE IF \/ ~wn.ok
                   \/ lo.fs # ln.fs
                   \/ lo.rel = <<>>
                   \/ IsPrefix(wo.path, wn.path)
             THEN /\ ret' = [ret EXCEPT ![t] =
                        Done(e, "rename", FALSE, "io", NoPath, {wo.path})]
                  /\ UNCHANGED <<fsys, writes>>
           ELSE /\ writes < MaxWrites
                /\ writes' = writes + 1
                /\ fsys' = [fsys EXCEPT ![lo.fs] = Moved(@, lo.rel, ln.rel)]
                /\ ret' = [ret EXCEPT ![t] =
                      Done(e, "rename", TRUE, "",
                           [name |-> new, path |-> new], {wo.path, wn.path})]
    /\ UNCHANGED <<mount_point, mounted_device, osMounts, arg, caller>>

\* Whether os.makedirs can make the path: the directories that are missing on
\* the way are made, a file on the way stops it ("..", which the kernel takes
\* from an existing directory only, too).
RECURSIVE CanMakeDirs(_, _)
CanMakeDirs(cur, rest) ==
    IF Exists(cur) /\ ~IsDir(cur) THEN FALSE
    ELSE IF rest = <<>> THEN TRUE
    ELSE IF Head(rest) = DotDot THEN Exists(cur) /\ CanMakeDirs(Parent(cur), Tail(rest))
    ELSE CanMakeDirs(Append(cur, Head(rest)), Tail(rest))

\* create_folder(folder_name, parent_path)
CreateFolder(t, folder_name, parent_path) ==
    /\ pc[t] = "idle"
    /\ pc' = [pc EXCEPT ![t] = "done"]
    /\ fo_usb_manager' = FoManager
    /\ LET mp == get_mount_point(FoManager)
           e == Enter(<<folder_name, parent_path>>)
           name == secure_filename(folder_name)
           \* os.path.join(mount_point, parent_path, folder_name); an empty
           \* parent_path joins no component
           full == Append(Join(mp, parent_path), name)
           w == Resolve(full)
           made == NormPath(<<>>, full)
           l == Loc(made)
       IN  IF mp = NoPath
             THEN /\ ret' = [ret EXCEPT ![t] = Raise(e, "create_folder", "not_mounted")]
                  /\ UNCHANGED <<fsys, writes>>
           ELSE IF name = <<>>
             THEN /\ ret' = [ret EXCEPT ![t] = Raise(e, "create_folder", "invalid_name")]
                  /\ UNCHANGED <<fsys, writes>>
           ELSE IF TargetExists(w)
             THEN /\ ret' = [ret EXCEPT ![t] =
                        Done(e, "create_folder", FALSE, "exists", NoPath, {w.path})]
                  /\ UNCHANGED <<fsys, writes>>
           ELSE IF ~CanMakeDirs(<<>>, full)
             THEN /\ ret' = [ret EXCEPT ![t] =
                        Done(e, "create_folder", FALSE, "io", NoPath, {})]
                  /\ UNCHANGED <<fsys, writes>>
           ELSE /\ writes < MaxWrites
                /\ writes' = writes + 1
                /\ fsys' = [fsys EXCEPT ![l.fs] = MakeDirs(@, l.rel)]
                /\ ret' = [ret EXCEPT ![t] =
                      Done(e, "create_folder", TRUE, "",
                           [name |-> name,
                            path |-> IF parent_path.segs # <<>>
                                       THEN Append(parent_path.segs, name)
                                       ELSE <<name>>],
                           {made})]
    /\ UNCHANGED <<mount_point, mounted_device, osMounts, arg, caller>>

\* ------------------------------------------------------------- environment
\* The volume is unmounted behind the manager's back (removal, another tool).
\* A response on its way is delivered first: the two steps commute.
ExternalUnmount ==
    /\ \A t \in Threads : pc[t] # "done"
    /\ osMounts # <<>>
    /\ osMounts' = Pop(osMounts)
    /\ UNCHANGED <<mount_point, mounted_device, fo_usb_manager,
                   fsys, writes, pc, arg, caller, ret>>

\* The response has gone to the client; the thread takes the next request.
Respond(t) ==
    /\ pc[t] = "done"
    /\ pc' = [pc EXCEPT ![t] = "idle"]
    /\ ret' = [ret EXCEPT ![t] = NoRet]
    /\ arg' = [arg EXCEPT ![t] = NoDevice]
    /\ caller' = [caller EXCEPT ![t] = "none"]
    /\ UNCHANGED <<writes, mount_point, mounted_device, fo_usb_manager, osMounts, fsys>>

\* ------------------------------------------------------------------ inputs
\* The path arguments of the requests
PathArgs ==
    {Rel(<<>>),
     Rel(<< <<"a", ".", "t">> >>),
     Rel(<< <<"d">> >>),
     Rel(<< DotDot, <<"x">> >>),
     Abs(Append(mount_base, <<"x">>))}
NewNames ==
    {Rel(<< <<"a", ".", "t">> >>),
     Rel(<< <<"b">> >>),
     Rel(<< DotDot, <<"y">> >>)}
FolderNames == {<<"d">>, <<"#">>}
ParentArgs == {Rel(<<>>), Rel(<< <<"d">> >>), Rel(<< DotDot >>)}
\* The uploaded files: the name the client gave, the size and the content
Uploads ==
    {[filename |-> n, size |-> 1, data |-> 5] :
        n \in {<<"a", ".", "t">>, <<".", ".", "/", "a", ".", "t">>, <<"#">>}}
    \cup {[filename |-> <<"a", ".", "t">>, size |-> max_file_size + 1, data |-> 5]}

Next ==
    \/ \E t \in Serial, d \in DeviceArgs : MountDevice(t, "app", d)
    \/ \E t \in Serial : MountMkdir(t)
    \/ \E t \in Serial : MountTry1(t)
    \/ \E t \in Serial : MountTry2(t)
    \/ \E t \in Serial : MountVerify(t, "app")
    \/ \E t \in Serial : UnmountDevice(t, "app")
    \/ \E t \in Serial : UmountTool(t)
    \/ \E t \in Serial : UnmountCleanup(t, "app")
    \/ \E t \in Serial : GetMountPoint(t, "app")
    \/ \E t \in Serial : GetStatus(t, "app")
    \/ \E t \in Serial, r \in PathArgs : GetFilePath(t, r)
    \/ \E t \in Serial, r \in PathArgs : ListFiles(t, r)
    \/ \E t \in Serial, f \in Uploads : UploadFile(t, f)
    \/ \E t \in Serial, r \in PathArgs : DeleteFile(t, r)
    \/ \E t \in Serial, r \in PathArgs, n \in NewNames : RenameFile(t, r, n)
    \/ \E t \in Serial, n \in FolderNames, r \in ParentArgs : CreateFolder(t, n, r)
    \/ ExternalUnmount
    \/ \E t \in Serial : Respond(t)

Spec == Init /\ [][Next]_vars

\* ------------------------------------------------------------- enumeration
\* get_available_devices reads the block devices of the host and no state of
\* the managers, so it is applied to every host of a bounded set under a
\* specification of its own.
MaxParts == 2

\* The disks a host may have: two SCSI/USB names and the SD-card slot.
DiskNames == {<<"s", "d", "a">>, <<"s", "d", "b">>,
              <<"m", "m", "c", "b", "l", "k", "0">>}

\* A host: each disk absent, or attached with the kernel's removable flag 0
\* (internal) or 1 (removable) and some partitions.
Hosts ==
    [DiskNames -> {[kind |-> "absent", parts |-> 0]}
                  \cup [kind : {"internal", "removable"}, parts : 0..MaxParts]]

\* How the lsblk call ends, and how the scan of /dev ends
ToolOutcomes == {"ok", "nonzero", "missing", "timeout", "malformed"}
ScanOutcomes == {"ok", "fails"}

DevPrefix == <<"/", "d", "e", "v", "/">>
IsDigit(c) == \E i \in 1..Len(Digits) : Digits[i] = c

\* The kernel's name of partition k of a disk
PartName(d, k) ==
    IF IsDigit(d[Len(d)]) THEN d \o <<"p">> \o Decimal(k) ELSE d \o Decimal(k)

\* A set of strings as a sequence in some fixed order
RECURSIVE SeqOf(_)
SeqOf(S) ==
    IF S = {} THEN <<>>
    ELSE LET x == CHOOSE y \in S : \A z \in S : StrLeq(y, z)
         IN  <<x>> \o SeqOf(S \ {x})

Attached(hw) == {d \in DiskNames : hw[d].kind # "absent"}

\* json.loads of what lsblk -J -o NAME,... prints: the disks, each with its
\* partitions as its children.
Lsblk(hw) ==
    LET disks == SeqOf(Attached(hw))
    IN  [i \in 1..Len(disks) |->
            [name |-> disks[i], type |-> "disk",
             children |-> [k \in 1..hw[disks[i]].parts |->
                              [name |-> PartName(disks[i], k), type |-> "part"]]]]

\* str.replace('/dev/', '')
RECURSIVE RemoveDev(_)
RemoveDev(s) ==
    IF Len(s) < Len(DevPrefix) THEN s
    ELSE IF SubSeq(s, 1, Len(DevPrefix)) = DevPrefix
      THEN RemoveDev(SubSeq(s, Len(DevPrefix) + 1, Len(s)))
    ELSE <<Head(s)>> \o RemoveDev(Tail(s))

\* _is_removable_disk: /sys/block/<name>/removable reads '1'
is_removable_disk(hw, device) ==
    LET device_name == RemoveDev(device.name)
    IN  device_name \in Attached(hw) /\ hw[device_name].kind = "removable"

\* name.split('/')[-1]
RECURSIVE LastSegment(_)
LastSegment(s) ==
    IF \E i \in 1..Len(s) : s[i] = "/"
      THEN LastSegment(Tail(s))
      ELSE s

\* The name cut at its first digit
RECURSIVE UpToDigit(_)
UpToDigit(s) ==
    IF s = <<>> THEN <<>>
    ELSE IF IsDigit(Head(s)) THEN <<>>
    ELSE <<Head(s)>> \o UpToDigit(Tail(s))

\* _is_usb_partition
is_usb_partition(device, usb_disks) ==
    (DevPrefix \o UpToDigit(LastSegment(device.name))) \in usb_disks

\* The primary path over the parsed output: the loops over data['blockdevices']
PrimaryDevices(hw, blockdevices) ==
    LET usb_disks == {blockdevices[i].name : i \in
                        {j \in 1..Len(blockdevices) :
                            /\ blockdevices[j].type = "disk"
                            /\ is_removable_disk(hw, blockdevices[j])}}
        Found(dev) == dev.type = "part" /\ is_usb_partition(dev, usb_disks)
        found == SelectSeq(blockdevices, Found)
    IN  [i \in 1..Len(found) |-> [name |-> found[i].name, type |-> found[i].type]]

StartsWith(s, pre) == Len(pre) <= Len(s) /\ SubSeq(s, 1, Len(pre)) = pre

\* The block-device nodes of /dev
DevNodes(hw) ==
    UNION {{d} \cup {PartName(d, k) : k \in 1..hw[d].parts} : d \in Attached(hw)}

\* _get_devices_fallback: the nodes /dev/sd* and /dev/usb*, each as a 'disk';
\* nothing when the scan fails.
get_devices_fallback(hw, scan) ==
    IF scan = "fails" THEN <<>>
    ELSE LET Named(pre) == SeqOf({n \in DevNodes(hw) : StartsWith(n, pre)})
             nodes == Named(<<"s", "d">>) \o Named(<<"u", "s", "b">>)
         IN  [i \in 1..Len(nodes) |-> [name |-> DevPrefix \o nodes[i], type |-> "disk"]]

\* get_available_devices: a non-zero exit leaves the list empty; an exception
\* (lsblk missing, timeout, output json.loads rejects) goes to the fallback.
get_available_devices(hw, tool, scan) ==
    IF tool = "ok" THEN PrimaryDevices(hw, Lsblk(hw))
    ELSE IF tool = "nonzero" THEN <<>>
    ELSE get_devices_fallback(hw, scan)

GetAvailableDevices(t, hw, tool, scan) ==
    /\ pc[t] = "idle"
    /\ pc' = [pc EXCEPT ![t] = "done"]
    /\ ret' = [ret EXCEPT ![t] =
          Ok(Enter([hw |-> hw, tool |-> tool, scan |-> scan]), "devices",
             get_available_devices(hw, tool, scan))]
    /\ UNCHANGED <<mount_point, mounted_device, fo_usb_manager, osMounts,
                   fsys, writes, arg, caller>>

NextEnum ==
    \/ \E t \in Serial, hw \in Hosts, tool \in ToolOutcomes, scan \in ScanOutcomes :
          GetAvailableDevices(t, hw, tool, scan)
    \/ \E t \in Serial : Respond(t)

SpecEnum == Init /\ [][NextEnum]_vars

\* ------------------------------------------------------- concurrent mounts
\* The mount route served by two threads at once: a threaded server runs the
\* handlers with no lock around the manager.
NextMounts ==
    \/ \E t \in Threads, d \in DeviceArgs : MountDevice(t, "app", d)
    \/ \E t \in Threads : MountMkdir(t)
    \/ \E t \in Threads : MountTry1(t)
    \/ \E t \in Threads : MountTry2(t)
    \/ \E t \in Threads : MountVerify(t, "app")
    \/ \E t \in Threads : UmountTool(t)
    \/ \E t \in Threads : UnmountCleanup(t, "app")
    \/ \E t \in Threads : Respond(t)

SpecMounts == Init /\ [][NextMounts]_vars

\* ----------------------------------------------- concurrent file requests
\* The file routes served by several threads at once.  Each handler is cut where
\* another thread can run between its checks and its storage call; the mount
\* point a handler read is MountDir, the one directory mount_device uses.

\* The state after mount_device('sda1') has succeeded, the file service built
\* over the application's manager.
InitMounted ==
    /\ mount_point = [m \in Managers |-> IF m = "app" THEN MountDir ELSE NoPath]
    /\ mounted_device = [m \in Managers |-> IF m = "app" THEN "sda1" ELSE NoDevice]
    /\ fo_usb_manager = "app"
    /\ osMounts = <<"sda1">>
    /\ fsys = [InitFs EXCEPT !["host"] = MakeDirs(@, MountDir)]
    /\ writes = 0
    /\ pc = [t \in Threads |-> "idle"]
    /\ arg = [t \in Threads |-> NoDevice]
    /\ caller = [t \in Threads |-> "none"]
    /\ ret = [t \in Threads |-> NoRet]

\* upload_file up to the end of the loop that looks for a free name
UploadBegin(t, f) ==
    /\ pc[t] = "idle"
    /\ fo_usb_manager' = FoManager
    /\ LET mp == get_mount_point(FoManager)
           e == Enter(<<f>>)
           filename == secure_filename(f.filename)
           error == UploadError(mp, filename, f.size)
       IN  IF error # ""
             THEN /\ ret' = [ret EXCEPT ![t] = Raise(e, "upload", error)]
                  /\ pc' = [pc EXCEPT ![t] = "done"]
             ELSE LET target == free_name(mp, filename, filename, 1)
                  IN  /\ ret' = [ret EXCEPT ![t] =
                            [e EXCEPT !.val = target, !.paths = {Append(mp, target)}]]
                      /\ pc' = [pc EXCEPT ![t] = "up_write"]
    /\ UNCHANGED <<mount_point, mounted_device, osMounts, fsys, writes, arg, caller>>

\* with open(file_path, 'wb') as f: the file is made, or cut to nothing if it
\* is there, on whatever filesystem the path leads to now.
UploadWrite(t) ==
    /\ pc[t] = "up_write"
    /\ pc' = [pc EXCEPT ![t] = "done"]
    /\ LET p == CHOOSE x \in ret[t].paths : TRUE
           f == ret[t].req[1]
           l == Loc(p)
       IN  IF ~Exists(Parent(p)) \/ (Exists(p) /\ IsDir(p))
             THEN /\ ret' = [ret EXCEPT ![t] = Done(@, "upload", FALSE, "io", NoPath, {p})]
                  /\ UNCHANGED <<fsys, writes>>
             ELSE /\ writes < MaxWrites
                  /\ writes' = writes + 1
                  /\ fsys' = [fsys EXCEPT ![l.fs] = Put(@, l.rel, FileEntry(f.data, f.size))]
                  /\ ret' = [ret EXCEPT ![t] =
                        Done(@, "upload", TRUE, "",
                             [name |-> ret[t].val, path |-> <<ret[t].val>>, size |-> f.size],
                             {p})]
    /\ UNCHANGED <<mount_point, mounted_device, fo_usb_manager, osMounts, arg, caller>>

\* create_folder up to its os.path.exists check
CreateFolderBegin(t, folder_name, parent_path) ==
    /\ pc[t] = "idle"
    /\ fo_usb_manager' = FoManager
    /\ LET mp == get_mount_point(FoManager)
           e == Enter(<<folder_name, parent_path>>)
           name == secure_filename(folder_name)
           w == Resolve(Append(Join(mp, parent_path), name))
       IN  IF mp = NoPath
             THEN /\ ret' = [ret EXCEPT ![t] = Raise(e, "create_folder", "not_mounted")]
                  /\ pc' = [pc EXCEPT ![t] = "done"]
           ELSE IF name = <<>>
             THEN /\ ret' = [ret EXCEPT ![t] = Raise(e, "create_folder", "invalid_name")]
                  /\ pc' = [pc EXCEPT ![t] = "done"]
           ELSE IF TargetExists(w)
             THEN /\ ret' = [ret EXCEPT ![t] =
                        Done(e, "create_folder", FALSE, "exists", NoPath, {w.path})]
                  /\ pc' = [pc EXCEPT ![t] = "done"]
           ELSE /\ ret' = [ret EXCEPT ![t] = e]
                /\ pc' = [pc EXCEPT ![t] = "mk_write"]
    /\ UNCHANGED <<mount_point, mounted_device, osMounts, fsys, writes, arg, caller>>

\* os.makedirs(full_path, exist_ok=True): a directory that is there by now is
\* no error.
CreateFolderMake(t) ==
    /\ pc[t] = "mk_write"
    /\ pc' = [pc EXCEPT ![t] = "done"]
    /\ LET name == secure_filename(ret[t].req[1])
           parent_path == ret[t].req[2]
           full == Append(Join(MountDir, parent_path), name)
           made == NormPath(<<>>, full)
           l == Loc(made)
       IN  IF ~CanMakeDirs(<<>>, full)
             THEN /\ ret' = [ret EXCEPT ![t] =
                        Done(@, "create_folder", FALSE, "io", NoPath, {})]
                  /\ UNCHANGED <<fsys, writes>>
             ELSE /\ writes < MaxWrites
                  /\ writes' = writes + 1
                  /\ fsys' = [fsys EXCEPT ![l.fs] = MakeDirs(@, l.rel)]
                  /\ ret' = [ret EXCEPT ![t] =
                        Done(@, "create_folder", TRUE, "",
                             [name |-> name,
                              path |-> IF parent_path.segs # <<>>
                                         THEN Append(parent_path.segs, name)
                                         ELSE <<name>>],
                             {made})]
    /\ UNCHANGED <<mount_point, mounted_device, fo_usb_manager, osMounts, arg, caller>>

\* rename_file up to its two os.path.exists checks
RenameBegin(t, old, new) ==
    /\ pc[t] = "idle"
    /\ fo_usb_manager' = FoManager
    /\ LET mp == get_mount_point(FoManager)
           e == Enter(<<old, new>>)
           wo == Resolve(Join(mp, old))
           wn == Resolve(Join(mp, new))
       IN  IF mp = NoPath
             THEN /\ ret' = [ret EXCEPT ![t] = Raise(e, "rename", "not_mounted")]
                  /\ pc' = [pc EXCEPT ![t] = "done"]
           ELSE IF ~wo.ok \/ ~Exists(wo.path)
             THEN /\ ret' = [ret EXCEPT ![t] = Raise(e, "rename", "not_found")]
                  /\ pc' = [pc EXCEPT ![t] = "done"]
           ELSE IF TargetExists(wn)
             THEN /\ ret' = [ret EXCEPT ![t] = Raise(e, "rename", "exists")]
                  /\ pc' = [pc EXCEPT ![t] = "done"]
           ELSE /\ ret' = [ret EXCEPT ![t] = e]
                /\ pc' = [pc EXCEPT ![t] = "rn_write"]
    /\ UNCHANGED <<mount_point, mounted_device, osMounts, fsys, writes, arg, caller>>

\* Whether os.rename(p, q) of existing p fails: across filesystems, of a mount
\* point, into itself, onto an entry of the other kind or onto a directory
\* that is not empty.  A file at q is replaced, and so is an empty directory.
RenameRefused(p, q) ==
    \/ Loc(p).fs # Loc(q).fs
    \/ Loc(p).rel = <<>>
    \/ Loc(q).rel = <<>>
    \/ IsPrefix(p, q)
    \/ /\ Exists(q)
       /\ \/ IsDir(p) # IsDir(q)
          \/ IsDir(q) /\ Children(q) # {}

\* os.rename(old_path, new_path)
RenameMove(t) ==
    /\ pc[t] = "rn_write"
    /\ pc' = [pc EXCEPT ![t] = "done"]
    /\ LET old == ret[t].req[1]
           new == ret[t].req[2]
           wo == Resolve(Join(MountDir, old))
           wn == Resolve(Join(MountDir, new))
           failed == IF ~wo.ok \/ ~wn.ok THEN TRUE
                     ELSE IF ~Exists(wo.path) THEN TRUE
                     ELSE RenameRefused(wo.path, wn.path)
       IN  IF failed
             THEN /\ ret' = [ret EXCEPT ![t] = Done(@, "rename", FALSE, "io", NoPath, {})]
                  /\ UNCHANGED <<fsys, writes>>
             ELSE /\ writes < MaxWrites
                  /\ writes' = writes + 1
                  /\ fsys' = [fsys EXCEPT ![Loc(wo.path).fs] =
                                 Moved(@, Loc(wo.path).rel, Loc(wn.path).rel)]
                  /\ ret' = [ret EXCEPT ![t] =
                        Done(@, "rename", TRUE, "",
                             [name |-> new, path |-> new], {wo.path, wn.path})]
    /\ UNCHANGED <<mount_point, mounted_device, fo_usb_manager, osMounts, arg, caller>>

\* The uploads of the concurrent requests: one more name, which a rename aims at
RaceUploads == Uploads \cup {[filename |-> <<"b">>, size |-> 1, data |-> 7]}

NextFiles ==
    \/ \E t \in Threads, f \in RaceUploads : UploadBegin(t, f)
    \/ \E t \in Threads : UploadWrite(t)
    \/ \E t \in Threads, n \in FolderNames, r \in ParentArgs : CreateFolderBegin(t, n, r)
    \/ \E t \in Threads : CreateFolderMake(t)
    \/ \E t \in Threads, r \in PathArgs, n \in NewNames : RenameBegin(t, r, n)
    \/ \E t \in Threads : RenameMove(t)
    \/ \E t \in Threads : Respond(t)

SpecFiles == InitMounted /\ [][NextFiles]_vars

\* -------------------------------- file requests against mount and unmount
\* Uploads served by one thread while another serves the mount and unmount
\* routes.
NextSwap ==
    \/ \E t \in Serial, f \in Uploads : UploadBegin(t, f)
    \/ \E t \in Serial : UploadWrite(t)
    \/ \E t \in Threads \ Serial, d \in Devices : MountDevice(t, "app", d)
    \/ \E t \in Threads \ Serial : MountMkdir(t)
    \/ \E t \in Threads \ Serial : MountTry1(t)
    \/ \E t \in Threads \ Serial : MountTry2(t)
    \/ \E t \in Threads \ Serial : MountVerify(t, "app")
    \/ \E t \in Threads \ Serial : UnmountDevice(t, "app")
    \/ \E t \in Threads \ Serial : UmountTool(t)
    \/ \E t \in Threads \ Serial : UnmountCleanup(t, "app")
    \/ \E t \in Threads : Respond(t)

SpecSwap == InitMounted /\ [][NextSwap]_vars

\* ================================================================== claims
FileOpNames == {"list", "upload", "delete", "rename", "create_folder", "get_file_path"}
MountPhases == {"m_mkdir", "m_mount1", "m_mount2", "m_verify"}
Finished(t, op) == pc[t] = "done" /\ ret[t].op = op

\* C1: a file operation made while the application's manager holds a session
\* whose mount root is a mount point does not fail with "not mounted".
C1_FileServiceSeesMount ==
    \A t \in Threads :
        (/\ pc[t] = "done"
         /\ ret[t].op \in FileOpNames
         /\ ret[t].saw.stored # NoPath
         /\ ret[t].saw.live)
        => ret[t].err # "not_mounted"

\* C2: while a request mount(B) is at its mount steps no session is installed,
\* and a request that found a session installed has called unmount_device
\* before it came there.
C2_TeardownBeforeMount ==
    \A t \in Threads :
        pc[t] \in MountPhases
        => /\ mount_point["app"] = NoPath
           /\ (ret[t].saw.stored # NoPath => caller[t] = "mount")

\* mount(sdb1) over an installed session has come to its first mount attempt.
C2_Witness ==
    \E t \in Threads :
        /\ pc[t] = "m_mount1"
        /\ arg[t] = "sdb1"
        /\ ret[t].saw.stored # NoPath
        /\ caller[t] = "mount"

\* C3: once unmount() of an installed session has returned, at most one device
\* is mounted on the mount directory, and it is the one the session records (so
\* nothing is mounted there when the session is empty).
C3_OsMatchesSession ==
    \A t \in Threads :
        (Finished(t, "unmount") /\ ret[t].ok /\ ret[t].saw.stored # NoPath)
        => /\ Len(osMounts) <= 1
           /\ (osMounts # <<>> => mounted_device["app"] = osMounts[1])

\* C4: when mount() has failed, no session is installed.
C4_FailedMountLeavesNoSession ==
    \A t \in Threads :
        (Finished(t, "mount") /\ ~ret[t].ok)
        => mount_point["app"] = NoPath /\ mounted_device["app"] = NoDevice

\* C5: when unmount() of an installed session has returned or raised, the
\* session is empty.
C5_UnmountAlwaysClears ==
    \A t \in Threads :
        (Finished(t, "unmount") /\ ret[t].saw.stored # NoPath)
        => mount_point["app"] = NoPath /\ mounted_device["app"] = NoDevice

\* C6: when get_mount_point() or get_status() has found the cached mount root
\* not to be a mount point, the stored session is empty.
C6_FailedReverificationDestroys ==
    \A t \in Threads :
        (/\ pc[t] = "done"
         /\ ret[t].op \in {"get_mount_point", "status"}
         /\ ret[t].saw.stored # NoPath
         /\ ~ret[t].saw.live)
        => mount_point["app"] = NoPath /\ mounted_device["app"] = NoDevice

\* C7: with no session stored, or the stored mount root not a mount point,
\* get_mount_point() returns None and get_status() the all-unmounted result.
C7_NoMountFromCache ==
    \A t \in Threads :
        (pc[t] = "done" /\ (ret[t].saw.stored = NoPath \/ ~ret[t].saw.live))
        => /\ (ret[t].op = "get_mount_point" => ret[t].val = NoPath)
           /\ (ret[t].op = "status" => ret[t].val = AllUnmounted)

\* get_status() has answered while the cached mount root was no mount point.
C7_Witness ==
    \E t \in Threads :
        /\ Finished(t, "status")
        /\ ret[t].saw.stored # NoPath
        /\ ~ret[t].saw.live

\* C8: a step installs a session only as the verification step of a mount
\* request whose tool call exited 0, with the new mount root a mount point
\* at that step, and it records the device of that request.
C8_InstallOnlyVerified ==
    [][\A m \in Managers :
          (mount_point'[m] # mount_point[m] /\ mount_point'[m] # NoPath)
          => \E t \in Threads :
                /\ pc[t] = "m_verify"
                /\ IsMount(mount_point'[m])
                /\ mounted_device'[m] = arg[t]]_vars

\* The mount tool exited 0, the mount root did not verify, and mount() raised
\* with no session installed.
C8_Witness ==
    \E t \in Threads :
        /\ Finished(t, "mount")
        /\ ret[t].err = "verify_failed"
        /\ mount_point["app"] = NoPath

\* C9: every absolute path a file operation has resolved lies inside the mount
\* root.
C9_PathsInsideRoot ==
    \A t \in Threads :
        (pc[t] = "done" /\ ret[t].op \in FileOpNames)
        => \A p \in ret[t].paths : IsPrefix(MountDir, p)

\* C10: an upload of the sanitized name s writes s if s is free and otherwise
\* the original with _k before its extension for the least k >= 1 that is free;
\* it returns the name it wrote, adds that one file with the uploaded content and
\* leaves every other entry as it was.
C10_UploadNeverOverwrites ==
    [][\A t \in Threads :
          (pc[t] = "idle" /\ pc'[t] = "done" /\ ret'[t].op = "upload" /\ ret'[t].ok)
          => LET f == ret'[t].req[1]
                 s == secure_filename(f.filename)
                 v == Top(osMounts)
                 old == fsys[v]
                 new == fsys'[v]
                 target == ret'[t].val.name
             IN  /\ <<target>> \notin DOMAIN old
                 /\ IF <<s>> \notin DOMAIN old THEN target = s
                    ELSE \E k \in 1..(Cardinality(DOMAIN old) + 1) :
                            /\ target = Suffixed(s, k)
                            /\ \A j \in 1..(k - 1) : <<Suffixed(s, j)>> \in DOMAIN old
                 /\ DOMAIN new = DOMAIN old \cup {<<target>>}
                 /\ \A p \in DOMAIN old : new[p] = old[p]
                 /\ new[<<target>>] = FileEntry(f.data, f.size)
                 /\ \A g \in FsIds \ {v} : fsys'[g] = fsys[g]]_vars

\* A third a.t has been uploaded: a.t and a_1.t were taken, a_2.t was written.
C10_Witness ==
    \E t \in Threads :
        /\ Finished(t, "upload")
        /\ ret[t].ok
        /\ ret[t].val.name = <<"a", "_", "2", ".", "t">>
        /\ << <<"a", ".", "t">> >> \in DOMAIN fsys["sda1"]
        /\ << <<"a", "_", "1", ".", "t">> >> \in DOMAIN fsys["sda1"]
        /\ << <<"a", "_", "2", ".", "t">> >> \in DOMAIN fsys["sda1"]
\* C11: rename onto a new name that exists (the source existing too) and
\* create_folder of a name that exists fail with the already-exists error, and
\* no entry of any volume is created, removed or changed.
C11_ExistingTargetRefused ==
    [][\A t \in Threads :
        (pc[t] = "idle" /\ pc'[t] = "done" /\ get_mount_point(FoManager) # NoPath) =>
          LET mp == get_mount_point(FoManager)
              r == ret'[t]
          IN  /\ (/\ r.op = "rename"
                  /\ Resolve(Join(mp, r.req[1])).ok
                  /\ Exists(Resolve(Join(mp, r.req[1])).path)
                  /\ Resolve(Join(mp, r.req[2])).ok
                  /\ Exists(Resolve(Join(mp, r.req[2])).path))
                 => (~r.ok /\ r.err = "exists" /\ fsys' = fsys)
              /\ (/\ r.op = "create_folder"
                  /\ secure_filename(r.req[1]) # <<>>
                  /\ Resolve(Append(Join(mp, r.req[2]), secure_filename(r.req[1]))).ok
                  /\ Exists(Resolve(Append(Join(mp, r.req[2]),
                                           secure_filename(r.req[1]))).path))
                 => (~r.ok /\ r.err = "exists" /\ fsys' = fsys)]_vars

\* A directory renamed onto an existing file of the volume has been refused.
C11_Witness ==
    \E t \in Threads :
        /\ Finished(t, "rename")
        /\ ret[t].err = "exists"
        /\ ret[t].req = <<Rel(<< <<"d">> >>), Rel(<< <<"a", ".", "t">> >>)>>
        /\ << <<"d">> >> \in DOMAIN fsys["sda1"]
        /\ << <<"a", ".", "t">> >> \in DOMAIN fsys["sda1"]

\* The disk a reported name belongs to is attached and removable.
OnRemovable(hw, name) ==
    \E d \in Attached(hw) :
        /\ hw[d].kind = "removable"
        /\ RemoveDev(name) \in {d} \cup {PartName(d, k) : k \in 1..hw[d].parts}

\* C12: every entry an enumeration returns, by the primary path or by the
\* fallback scan, belongs to a disk classified removable.
C12_OnlyRemovable ==
    \A t \in Threads :
        Finished(t, "devices") =>
            \A i \in 1..Len(ret[t].val) :
                OnRemovable(ret[t].req.hw, ret[t].val[i].name)

\* C13: when lsblk succeeds, every partition of every removable disk of its
\* tree is in the result.
C13_PrimaryReportsPartitions ==
    \A t \in Threads :
        (Finished(t, "devices") /\ ret[t].req.tool = "ok") =>
            \A d \in Attached(ret[t].req.hw) :
                ret[t].req.hw[d].kind = "removable" =>
                    \A k \in 1..ret[t].req.hw[d].parts :
                        \E i \in 1..Len(ret[t].val) :
                            RemoveDev(ret[t].val[i].name) = PartName(d, k)

\* C14: enumeration never raises, and after every failure of the lsblk call
\* (missing, non-zero exit, malformed output, timeout) it returns what the
\* fallback scan returns.
C14_FailureFallsBack ==
    \A t \in Threads :
        Finished(t, "devices") =>
            /\ ret[t].ok
            /\ ret[t].req.tool # "ok" =>
                  ret[t].val = get_devices_fallback(ret[t].req.hw, ret[t].req.scan)

\* C15: the mount root a mount installs lies directly under the fixed base
\* directory and is not the directory of the session before it.
C15_FreshMountRoot ==
    \A t \in Threads :
        (Finished(t, "mount") /\ ret[t].ok) =>
            /\ IsPrefix(mount_base, ret[t].val)
            /\ Len(ret[t].val) = Len(mount_base) + 1
            /\ ret[t].val # ret[t].saw.stored

\* C16: unmount_device with no session stored returns success at once, with no
\* umount call and no rmdir, and leaves the session empty and the host as it
\* was; an unmount that returned success has left no session, so the unmount
\* after it is such a call.
C16_UnmountIdempotent ==
    [][\A t \in Threads :
        /\ (/\ pc[t] = "idle"
            /\ mount_point["app"] = NoPath
            /\ \/ caller'[t] = "route"
               \/ pc'[t] = "done" /\ ret'[t].op = "unmount")
           => /\ pc'[t] = "done"
              /\ ret'[t].op = "unmount"
              /\ ret'[t].ok
              /\ mount_point'["app"] = NoPath
              /\ mounted_device'["app"] = NoDevice
              /\ osMounts' = osMounts
              /\ fsys' = fsys
        /\ (pc'[t] = "done" /\ ret'[t].op = "unmount" /\ ret'[t].ok)
           => mount_point'["app"] = NoPath]_vars

\* An unmount with no session stored has returned success while the volume the
\* unmount before it could not detach is still mounted.
C16_Witness ==
    \E t \in Threads :
        /\ Finished(t, "unmount")
        /\ ret[t].ok
        /\ ret[t].saw.stored = NoPath
        /\ osMounts # <<>>

\* C17: get_status over a session whose directory is a live mount, on a
\* filesystem that reports a total of 0, returns to the caller and its
\* usage_percent is 0.
C17_ZeroTotal ==
    \A t \in Threads :
        (/\ Finished(t, "status")
         /\ ret[t].saw.stored # NoPath
         /\ ret[t].saw.live
         /\ ~ret[t].req[1].fails
         /\ ret[t].req[1].total = 0)
        => (ret[t].ok /\ ret[t].val.usage_percent = 0)

C17_Witness ==
    \E t \in Threads :
        /\ Finished(t, "status")
        /\ ret[t].saw.stored # NoPath
        /\ ret[t].saw.live
        /\ ~ret[t].req[1].fails
        /\ ret[t].req[1].total = 0

\* C18: when the manager the file service asks has no mount point to give,
\* every file operation fails with the not-mounted error, whatever its input
\* (an unusable name, a file over the size limit), having accessed no path and
\* changed nothing on any filesystem.
C18_NotMountedFirst ==
    [][\A t \in Threads :
        (/\ pc[t] = "idle"
         /\ pc'[t] = "done"
         /\ ret'[t].op \in FileOpNames
         /\ get_mount_point(FoManager) = NoPath)
        => /\ ~ret'[t].ok
           /\ ret'[t].err = "not_mounted"
           /\ ret'[t].paths = {}
           /\ fsys' = fsys]_vars

\* An upload with a name that sanitises to nothing, over a session whose volume
\* was unmounted behind the manager's back, has failed as not mounted.
C18_Witness ==
    \E t \in Threads :
        /\ Finished(t, "upload")
        /\ ret[t].err = "not_mounted"
        /\ secure_filename(ret[t].req[1].filename) = <<>>
        /\ fo_usb_manager = "app"
        /\ ret[t].saw.stored # NoPath
        /\ ~ret[t].saw.live

\* C19: delete_file of a path that does not exist under the mount root fails
\* with the not-found error and leaves every entry of every filesystem as it
\* was.
C19_DeleteMissing ==
    [][\A t \in Threads :
        (/\ pc[t] = "idle"
         /\ pc'[t] = "done"
         /\ ret'[t].op = "delete"
         /\ get_mount_point(FoManager) # NoPath
         /\ LET w == Resolve(Join(get_mount_point(FoManager), ret'[t].req[1]))
            IN  ~w.ok \/ ~Exists(w.path))
        => /\ ~ret'[t].ok
           /\ ret'[t].err = "not_found"
           /\ fsys' = fsys]_vars

\* The delete of d has failed as not found on a mounted volume that holds a.t.
C19_Witness ==
    \E t \in Threads :
        /\ Finished(t, "delete")
        /\ ret[t].err = "not_found"
        /\ ret[t].req[1] = Rel(<< <<"d">> >>)
        /\ osMounts = <<"sda1">>
        /\ << <<"a", ".", "t">> >> \in DOMAIN fsys["sda1"]

\* The directory a finished listing was asked for, and the names in it
ListedDir(t) == Resolve(Join(MountDir, ret[t].req[1])).path
NamesIn(xs) == {x[Len(x)] : x \in xs}

\* The result runs directories first and, among directories and among files,
\* by lower-cased name ascending.
ListOrdered(sq) ==
    \A i, j \in 1..Len(sq) :
        i < j => /\ sq[i].is_directory \/ ~sq[j].is_directory
                 /\ sq[i].is_directory = sq[j].is_directory
                      => StrLeq(lower(sq[i].name), lower(sq[j].name))

C21_ConcurrentMountsConsistent ==
    \A t, u \in Threads :
        (/\ t # u
         /\ Finished(t, "mount") /\ ret[t].ok /\ ret[t].saw.stored = NoPath
         /\ Finished(u, "mount") /\ ret[u].ok /\ ret[u].saw.stored = NoPath)
        => osMounts = <<mounted_device["app"]>>

\* C22: the storage step of an upload that reports success makes a file that
\* was not there: it never cuts or replaces a file another upload of the same
\* name has written since the free name was chosen.
C22_UploadCreatesOnly ==
    [][\A t \in Threads :
        (pc[t] = "up_write" /\ pc'[t] = "done" /\ ret'[t].ok)
        => \A p \in ret[t].paths : ~Exists(p)]_vars

\* The path a rename or create_folder in progress is about to make
StorageTarget(t) ==
    IF pc[t] = "rn_write"
      THEN Resolve(Join(MountDir, ret[t].req[2])).path
      ELSE NormPath(<<>>, Append(Join(MountDir, ret[t].req[2]),
                                 secure_filename(ret[t].req[1])))

\* C23: the storage step of a rename or create_folder that reports success
\* makes an entry that was not there: an entry another request has made at the
\* target since the existence check is neither replaced nor reported as made
\* by this request.
C23_NoSharedTarget ==
    [][\A t \in Threads :
        (pc[t] \in {"rn_write", "mk_write"} /\ pc'[t] = "done" /\ ret'[t].ok)
        => ~Exists(StorageTarget(t))]_vars

\* C24: the storage step of an upload that read its mount point under the
\* verified session of a device changes no filesystem but the
\* volume of that device: not the volume of a device mounted since, not the
\* host directory under the mount point.
C24_StorageStaysOnVolume ==
    [][\A t \in Threads :
        (pc[t] = "up_write" /\ pc'[t] = "done")
        => \A g \in FsIds \ {ret[t].saw.device} : fsys'[g] = fsys[g]]_vars

\* C25: a mount_device call on an existing device fails only because the mount
\* tool did not succeed or the mount root did not verify; the outcome of the
\* implicit unmount of the previous session never makes it fail.
C25_MountNeverBlocked ==
    \A t \in Threads :
        (/\ Finished(t, "mount")
         /\ arg[t] \in Devices
         /\ ~ret[t].ok)
        => ret[t].err \in {"mount_failed", "timeout", "verify_failed"}

\* C26: get_status over a stored session whose mount root is a mount point
\* reports mounted with the device and the mount root of the session, whatever
\* the disk usage query gives.
C26_VerifiedMountReported ==
    \A t \in Threads :
        (/\ Finished(t, "status")
         /\ ret[t].saw.stored # NoPath
         /\ ret[t].saw.live)
        => (/\ ret[t].val.mounted
            /\ ret[t].val.device = ret[t].saw.device
            /\ ret[t].val.mount_point = ret[t].saw.stored)

\* ------------------------------------------------------- rename below the root
\* A mounted volume that holds a directory with a file in it, as volumes do
\* when they are plugged in; upload_file itself only writes at the root.
NestedFs ==
    [InitFs EXCEPT
        !["host"] = MakeDirs(@, MountDir),
        !["sda1"] = Put(Put(@, << <<"d">> >>, DirEntry),
                        << <<"d">>, <<"a", ".", "t">> >>, FileEntry(3, 1))]

InitNested ==
    /\ mount_point = [m \in Managers |-> IF m = "app" THEN MountDir ELSE NoPath]
    /\ mounted_device = [m \in Managers |-> IF m = "app" THEN "sda1" ELSE NoDevice]
    /\ fo_usb_manager = "app"
    /\ osMounts = <<"sda1">>
    /\ fsys = NestedFs
    /\ writes = 0
    /\ pc = [t \in Threads |-> "idle"]
    /\ arg = [t \in Threads |-> NoDevice]
    /\ caller = [t \in Threads |-> "none"]
    /\ ret = [t \in Threads |-> NoRet]

\* The filename arguments of the rename route: the entries at the root and the
\* file in the directory.
RenameArgs == PathArgs \cup {Rel(<< <<"d">>, <<"a", ".", "t">> >>)}

NextRename ==
    \/ \E t \in Serial, r \in RenameArgs, n \in NewNames : RenameFile(t, r, n)
    \/ \E t \in Serial, r \in RenameArgs : ListFiles(t, r)
    \/ \E t \in Serial : Respond(t)

SpecRename == InitNested /\ [][NextRename]_vars

\* A relative path below the mount root with no ".." in it, and a new name of
\* one component.
PlainPath(r) ==
    /\ ~r.abs
    /\ r.segs # <<>>
    /\ \A i \in 1..Len(r.segs) : r.segs[i] # DotDot

\* C27: a successful rename of P/old to the one-component name new leaves the
\* entry at P/new, in the directory it was in, and none at P/old, and the path
\* it returns is P/new.
C27_RenameInPlace ==
    \A t \in Threads :
        (/\ Finished(t, "rename")
         /\ ret[t].ok
         /\ PlainPath(ret[t].req[1])
         /\ PlainPath(ret[t].req[2])
         /\ Len(ret[t].req[2].segs) = 1)
        => LET there == Rel(Parent(ret[t].req[1].segs) \o ret[t].req[2].segs)
           IN  /\ Exists(Join(MountDir, there))
               /\ ~Exists(Join(MountDir, ret[t].req[1]))
               /\ ret[t].val.path = there

====
